---- MODULE Spec2Model ----
(***************************************************************************)
(* Voice-notes recorder (src/index.tsx, class VoiceNotesApp): the          *)
(* recording / processing state machine.  One action per event handler or  *)
(* per continuation of an async method between two awaits.  The handlers   *)
(* are operators on a record w holding every field of the state, so that a *)
(* handler that calls another handler is the composition of the two.       *)
(***************************************************************************)
EXTENDS Integers, Sequences, FiniteSets, TLC

VARIABLES
  isRecording,        \* this.isRecording
  stream,             \* this.stream: Null or a stream id
  mediaRecorder,      \* this.mediaRecorder: Null or a recorder id
  audioChunks,        \* this.audioChunks: sequence of chunks (each named by its recorder)
  audioContext,       \* this.audioContext is non-null
  analyserNode,       \* this.analyserNode (and waveformDataArray) is non-null
  waveformDrawingId,  \* this.waveformDrawingId: Null or an animation-frame id
  timerIntervalId,    \* this.timerIntervalId: Null or an interval id
  currentNote,        \* this.currentNote: a reference into heap
  notes,              \* this.notes: sequence of references into heap
  recordingStatus,    \* this.recordingStatus.textContent
  rawTranscription,   \* this.rawTranscription.textContent
  editorTitle,        \* this.editorTitle.textContent
  tracks,             \* platform: the tracks of every stream getUserMedia granted
  recorders,          \* platform: the state of every MediaRecorder constructed
  frames,             \* platform: animation-frame callbacks scheduled
  timers,             \* platform: intervals scheduled
  heap,               \* the Note objects, by reference
  now,                \* the last reading of Date.now()
  calls,              \* startRecording calls suspended at an await
  pipes,              \* processAudio pipelines suspended at an await
  clicks,             \* user events still to come in this run
  lastOp              \* the handler step taken last, and whether it threw

vars == <<isRecording, stream, mediaRecorder, audioChunks, audioContext,
          analyserNode, waveformDrawingId, timerIntervalId, currentNote, notes,
          recordingStatus, rawTranscription, editorTitle, tracks, recorders,
          frames, timers, heap, now, calls, pipes, clicks, lastOp>>

(***************************************************************************)
(* Bounds                                                                  *)
(***************************************************************************)
MaxClicks == 3         \* user events (clicks, file selections) in one run
MaxCaptureClicks == 3  \* the same, in a run of the capture session alone
MaxStored == 2         \* notes local storage holds when a session resumes
MaxTextLen == 5        \* characters of a polished text, where all texts are tried

MaxPool == IF MaxClicks > MaxCaptureClicks THEN MaxClicks ELSE MaxCaptureClicks

Null == 0

StreamIds == 1..MaxPool       \* one stream per startRecording at most
FrameIds  == 1..MaxPool       \* one draw loop per startLiveDisplay at most
TimerIds  == 1..MaxPool
PipeIds   == 1..MaxPool       \* one pipeline per upload or recorder at most
NoteRefs  == 1..(MaxPool + 1 + MaxStored) \* the constructor's note, one per
                                          \* event, and the notes loaded

(***************************************************************************)
(* Status messages                                                         *)
(***************************************************************************)
StReady              == "Ready to record"
StTooLarge           == "File is too large (max 50MB)."
StProcessingFile     == "Processing file..."
StRequesting         == "Requesting microphone access..."
StPermissionDenied   == "Microphone permission denied. Please check browser settings."
StDeviceError        == "Error accessing microphone. Please check connection."
StProcessingAudio    == "Processing audio..."
StNoAudio            == "No audio data captured. Please try again."
StConverting         == "Converting audio..."
StErrorProcessing    == "Error processing recording. Please try again."
StGettingTranscript  == "Getting transcription..."
StTranscriptComplete == "Transcription complete. Polishing note..."
StTranscriptionEmpty == "Transcription failed or returned empty."
StErrorTranscription == "Error getting transcription. Please try again."
StNoTranscription    == "No transcription to polish"
StPolishing          == "Polishing note..."
StNotePolished       == "Note polished. Ready for next recording."
StPolishingEmpty     == "Polishing failed or returned empty."
StErrorPolishing     == "Error polishing note. Please try again."

(***************************************************************************)
(* Strings are sequences of characters.                                    *)
(***************************************************************************)
WhiteSpace == {" ", "\t", "\n"}
Digits == {"0", "1", "2", "3", "4", "5", "6", "7", "8", "9"}

\* The character class of the fallback rule: star, underscore, backquote,
\* hash, hyphen, greater-than, brackets, parentheses, dot, white space, digits
\* (the backquote character is written "backquote").
Markup == {"*", "_", "backquote", "#", "-", ">", "[", "]", "(", ".", ")"}
            \cup WhiteSpace \cup Digits

RECURSIVE DropWhile(_, _)
\* str without its longest prefix of characters of class
DropWhile(str, class) ==
  IF str # <<>> /\ Head(str) \in class THEN DropWhile(Tail(str), class) ELSE str

RECURSIVE Reverse(_)
Reverse(str) == IF str = <<>> THEN <<>> ELSE Append(Reverse(Tail(str)), Head(str))

\* String.prototype.trim
Trim(str) == Reverse(DropWhile(Reverse(DropWhile(str, WhiteSpace)), WhiteSpace))

RECURSIVE Split(_, _)
\* String.prototype.split(sep) for a one-character separator
Split(str, sep) ==
  IF \A i \in DOMAIN str : str[i] # sep THEN <<str>>
  ELSE LET k == CHOOSE i \in DOMAIN str :
                  str[i] = sep /\ \A j \in 1..(i - 1) : str[j] # sep
       IN <<SubSeq(str, 1, k - 1)>> \o Split(SubSeq(str, k + 1, Len(str)), sep)

\* line.replace(/^#+\s+/, empty): the heading marker goes only when white
\* space follows it.
StripHeadingMarker(line) ==
  LET afterMarker == DropWhile(line, {"#"})
      afterSpace  == DropWhile(afterMarker, WhiteSpace)
  IN IF Len(afterMarker) < Len(line) /\ Len(afterSpace) < Len(afterMarker)
     THEN afterSpace ELSE line

MaxTitleLength == 60

\* The title rule (a) finds in lines, or <<>> when no line gives one.
RECURSIVE HeadingTitle(_)
HeadingTitle(lines) ==
  IF lines = <<>> THEN <<>>
  ELSE LET line  == Head(lines)
           title == Trim(StripHeadingMarker(line))
       IN IF line # <<>> /\ Head(line) = "#" /\ title # <<>>
          THEN title ELSE HeadingTitle(Tail(lines))

\* The title rule (b) finds in lines, or <<>> when no line gives one.
RECURSIVE FallbackTitle(_)
FallbackTitle(lines) ==
  IF lines = <<>> THEN <<>>
  ELSE LET line == Head(lines)
           potentialTitle == Trim(DropWhile(line, Markup))
       IN IF Len(line) > 0 /\ Len(potentialTitle) > 3
          THEN IF Len(potentialTitle) > MaxTitleLength
               THEN SubSeq(potentialTitle, 1, MaxTitleLength) \o <<".", ".", ".">>
               ELSE potentialTitle
          ELSE FallbackTitle(Tail(lines))

\* What the title derivation of getPolishedNote leaves in editorTitle for
\* the polished text, given what editorTitle showed.
DeriveTitle(polishedText, shown) ==
  LET lines == [i \in DOMAIN Split(polishedText, "\n") |->
                  Trim(Split(polishedText, "\n")[i])]
  IN IF HeadingTitle(lines) # <<>> THEN HeadingTitle(lines)
     ELSE IF FallbackTitle(lines) # <<>> THEN FallbackTitle(lines)
     ELSE shown

(***************************************************************************)
(* Texts.  A text is its string (str), the pipeline whose remote call      *)
(* returned it (src) and the note that was current when that pipeline      *)
(* started (for); src and for are Null for a text no pipeline produced.    *)
(***************************************************************************)
Text(str, src, for) == [str |-> str, src |-> src, for |-> for]
EmptyText == Text(<<>>, Null, Null)

\* The placeholder attribute of the title, or 'Untitled Note'
UntitledText == Text(<<"U", "n", "t", "i", "t", "l", "e", "d">>, Null, Null)

\* The placeholder attribute of the raw transcription
RawPlaceholder == Text(<<"R", "a", "w">>, Null, Null)

\* JavaScript truthiness of a string: if (transcriptionText), note.title || ...
Truthy(t) == t.str # <<>>

\* s.trim() === ''
TrimEmpty(t) == Trim(t.str) = <<>>

\* What the transcription call can answer with: nothing, white space, words.
Transcripts == {<<>>, <<" ">>, <<"h", "i">>}

\* What the polishing call can answer with: nothing, white space, a note
\* with a heading, a note without one, a note too short to name.
Polished ==
  {<<>>, <<" ">>,
   <<"#", " ", "T", "o", "\n", "m", "i", "l", "k">>,
   <<"-", " ", "m", "i", "l", "k">>,
   <<"-", " ", "o", "k">>}

(***************************************************************************)
(* The state as one record, and its write-back                             *)
(***************************************************************************)
State ==
  [isRecording |-> isRecording, stream |-> stream, mediaRecorder |-> mediaRecorder,
   audioChunks |-> audioChunks, audioContext |-> audioContext,
   analyserNode |-> analyserNode, waveformDrawingId |-> waveformDrawingId,
   timerIntervalId |-> timerIntervalId, currentNote |-> currentNote,
   notes |-> notes, recordingStatus |-> recordingStatus,
   rawTranscription |-> rawTranscription, editorTitle |-> editorTitle,
   tracks |-> tracks, recorders |-> recorders, frames |-> frames,
   timers |-> timers, heap |-> heap, now |-> now, calls |-> calls,
   pipes |-> pipes, clicks |-> clicks, thrown |-> FALSE,
   stopOnInactive |-> "throws"]

FreeNote == [id |-> 0, title |-> EmptyText, rawTranscription |-> EmptyText,
             polishedNote |-> EmptyText]
DeadNote == [FreeNote EXCEPT !.id = -1]

\* A pipeline: where it waits (pc), what started it (origin), the note
\* current when it started (target) and whether the current note has
\* changed since (moved), its blob, the transcript it got and the text it
\* asked to have polished.
FreePipe == [pc |-> "free", origin |-> "none", target |-> Null, moved |-> FALSE,
             size |-> 0, chunks |-> <<>>, type |-> FALSE,
             transcript |-> EmptyText, prompt |-> EmptyText]
DonePipe == [FreePipe EXCEPT !.pc = "done"]

Op(name) == [op |-> name, stream |-> Null, error |-> "none", pipe |-> Null,
             note |-> Null, text |-> <<>>, bytes |-> 0, threw |-> FALSE]

Range(s) == {s[i] : i \in DOMAIN s}

\* A Note object no field and no list refers to any more is garbage.
Collect(w) ==
  [n \in NoteRefs |->
     IF w.heap[n].id > 0 /\ n # w.currentNote /\ n \notin Range(w.notes)
     THEN DeadNote ELSE w.heap[n]]

Commit(w, op) ==
  /\ isRecording' = w.isRecording
  /\ stream' = w.stream
  /\ mediaRecorder' = w.mediaRecorder
  /\ audioChunks' = w.audioChunks
  /\ audioContext' = w.audioContext
  /\ analyserNode' = w.analyserNode
  /\ waveformDrawingId' = w.waveformDrawingId
  /\ timerIntervalId' = w.timerIntervalId
  /\ currentNote' = w.currentNote
  /\ notes' = w.notes
  /\ recordingStatus' = w.recordingStatus
  /\ rawTranscription' = w.rawTranscription
  /\ editorTitle' = w.editorTitle
  /\ tracks' = w.tracks
  /\ recorders' = w.recorders
  /\ frames' = w.frames
  /\ timers' = w.timers
  /\ heap' = Collect(w)
  /\ now' = w.now
  /\ calls' = w.calls
  /\ pipes' = [p \in PipeIds |->
                 IF pipes[p].pc \notin {"free", "done"} /\ w.pipes[p].pc # "done"
                    /\ w.currentNote # currentNote
                 THEN [w.pipes[p] EXCEPT !.moved = TRUE] ELSE w.pipes[p]]
  /\ clicks' = w.clicks
  /\ lastOp' = [op EXCEPT !.threw = w.thrown]

\* The smallest id of pool not in used.
FreshId(used, pool) == CHOOSE i \in pool \ used : \A j \in pool \ used : i <= j

(***************************************************************************)
(* Platform objects                                                        *)
(***************************************************************************)
\* stream.getTracks().forEach((track) => track.stop()); s = Null is the
\* optional call on a null stream.
StopTracks(w, s) ==
  IF s = Null THEN w
  ELSE [w EXCEPT !.tracks[s] = IF @ = "live" THEN "ended" ELSE "endedTwice"]

\* MediaRecorder.stop(): a recording recorder becomes inactive and queues the
\* task that fires dataavailable and stop; on an inactive one the call
\* throws InvalidStateError in some browsers and returns in the others.
RecorderStop(w, r, by) ==
  IF w.recorders[r].state = "recording"
  THEN [w EXCEPT !.recorders[r] = [state |-> "finalizing", by |-> by]]
  ELSE IF w.stopOnInactive = "throws" THEN [w EXCEPT !.thrown = TRUE]
  ELSE w

(***************************************************************************)
(* The live display                                                        *)
(***************************************************************************)
SetupAudioVisualizer(w) ==
  IF w.stream = Null \/ w.audioContext THEN w
  ELSE [w EXCEPT !.audioContext = TRUE, !.analyserNode = TRUE]

\* A faulty variant of DrawLiveWaveform: isRecording is not tested.
DrawLiveWaveformUnguarded(w) ==
  IF ~w.analyserNode
  THEN [w EXCEPT !.frames = @ \ {w.waveformDrawingId},
                 !.waveformDrawingId = Null]
  ELSE LET f == FreshId(w.frames, FrameIds)
       IN [w EXCEPT !.frames = @ \cup {f}, !.waveformDrawingId = f]

\* One run of drawLiveWaveform: either the loop ends, or the next frame is
\* requested and the bars are drawn.
DrawLiveWaveform(w) ==
  IF ~w.analyserNode \/ ~w.isRecording
  THEN [w EXCEPT !.frames = @ \ {w.waveformDrawingId},
                 !.waveformDrawingId = Null]
  ELSE LET f == FreshId(w.frames, FrameIds)
       IN [w EXCEPT !.frames = @ \cup {f}, !.waveformDrawingId = f]

\* A faulty variant of StartLiveDisplay: the timer already set is not cleared.
StartLiveDisplayNoClear(w) ==
  LET w1 == DrawLiveWaveform(SetupAudioVisualizer(w))
      t == FreshId(w1.timers, TimerIds)
  IN [w1 EXCEPT !.timers = @ \cup {t}, !.timerIntervalId = t]

StartLiveDisplay(w) ==
  LET w1 == DrawLiveWaveform(SetupAudioVisualizer(w))
      cleared == w1.timers \ {w1.timerIntervalId}
      t == FreshId(cleared, TimerIds)
  IN [w1 EXCEPT !.timers = cleared \cup {t}, !.timerIntervalId = t]

StopLiveDisplay(w) ==
  [w EXCEPT !.frames = @ \ {w.waveformDrawingId},
            !.waveformDrawingId = Null,
            !.timers = @ \ {w.timerIntervalId},
            !.timerIntervalId = Null,
            !.audioContext = FALSE,
            !.analyserNode = FALSE]

(***************************************************************************)
(* Notes                                                                   *)
(***************************************************************************)
DisplayNote(w, n) ==
  [w EXCEPT !.editorTitle =
              IF Truthy(w.heap[n].title) THEN w.heap[n].title ELSE UntitledText,
            !.rawTranscription =
              IF Truthy(w.heap[n].rawTranscription)
              THEN w.heap[n].rawTranscription ELSE RawPlaceholder]

\* The references of the store whose note has this id, in store order.
IndexOfId(w, id) ==
  LET hits == {i \in DOMAIN w.notes : w.heap[w.notes[i]].id = id}
  IN IF hits = {} THEN 0 ELSE CHOOSE i \in hits : \A j \in hits : i <= j

\* A faulty variant of HasContent: the fields are tested without trim().
HasContentUntrimmed(note) ==
  Truthy(note.rawTranscription) \/ Truthy(note.polishedNote)

\* const hasContent = rawTranscription.trim() || polishedNote.trim()
HasContent(note) ==
  ~TrimEmpty(note.rawTranscription) \/ ~TrimEmpty(note.polishedNote)

SaveOrUpdateCurrentNote(w) ==
  IF w.currentNote = Null THEN w
  ELSE
    LET c  == w.currentNote
        w1 == [w EXCEPT !.heap[c].title =
                 IF TrimEmpty(w.editorTitle) THEN UntitledText
                 ELSE [w.editorTitle EXCEPT !.str = Trim(@)]]
        noteIndex == IndexOfId(w1, w1.heap[c].id)
    IN IF ~HasContent(w1.heap[c]) THEN w1
       ELSE IF noteIndex > 0
            THEN [w1 EXCEPT !.notes[noteIndex] = c]
            ELSE [w1 EXCEPT !.notes = <<c>> \o @]

\* createNewNote; t is the reading of Date.now().  A throw of
\* mediaRecorder.stop() leaves the rest of the method undone.
CreateNewNote(w, t) ==
  LET n  == FreshId({r \in NoteRefs : w.heap[r].id # 0}, NoteRefs)
      w1 == [w EXCEPT !.now = t,
                      !.heap[n] = [FreeNote EXCEPT !.id = t],
                      !.currentNote = n]
      w2 == [DisplayNote(w1, n) EXCEPT !.recordingStatus = StReady]
  IN IF w2.isRecording
     THEN LET w3 == IF w2.mediaRecorder = Null THEN w2
                    ELSE RecorderStop(w2, w2.mediaRecorder, "newNote")
          IN IF w3.thrown THEN w3 ELSE [w3 EXCEPT !.isRecording = FALSE]
     ELSE StopLiveDisplay(w2)

DisplayNoteById(w, id) ==
  LET i == IndexOfId(w, id)
  IN IF i = 0 THEN w
     ELSE DisplayNote([w EXCEPT !.currentNote = w.notes[i]], w.notes[i])

\* A faulty variant of DeleteNote: the current note is kept when it is the one
\* deleted.
DeleteNoteKeepsCurrent(w, id, t) ==
  [w EXCEPT !.notes = SelectSeq(@, LAMBDA n : w.heap[n].id # id)]

DeleteNote(w, id, t) ==
  LET w1 == [w EXCEPT !.notes = SelectSeq(@, LAMBDA n : w.heap[n].id # id)]
  IN IF w1.currentNote # Null /\ w1.heap[w1.currentNote].id = id
     THEN CreateNewNote(w1, t) ELSE w1

ClearAllNotes(w, t) == CreateNewNote([w EXCEPT !.notes = <<>>], t)

(***************************************************************************)
(* The pipeline: processAudio, getTranscription, getPolishedNote           *)
(***************************************************************************)
NextPipe(w) == FreshId({p \in PipeIds : w.pipes[p].pc # "free"}, PipeIds)

\* processAudio up to its await of the FileReader.  The blob is size bytes
\* of the chunks given, with a content type or without one.
ProcessAudio(w, size, chunks, type, origin) ==
  IF size = 0
  THEN [w EXCEPT !.recordingStatus = StNoAudio]
  ELSE [w EXCEPT !.recordingStatus = StConverting,
                 !.pipes[NextPipe(w)] =
                    [FreePipe EXCEPT !.pc = "reading", !.origin = origin,
                                     !.target = w.currentNote, !.size = size,
                                     !.chunks = chunks, !.type = type]]

\* getPolishedNote up to its await of generateContent.
GetPolishedNote(w, p) ==
  IF TrimEmpty(w.rawTranscription)
  THEN [w EXCEPT !.recordingStatus = StNoTranscription, !.pipes[p] = DonePipe]
  ELSE [w EXCEPT !.recordingStatus = StPolishing,
                 !.pipes[p].pc = "polishing",
                 !.pipes[p].prompt = w.rawTranscription]

\* processAudio from the FileReader's result on: the conversion check and
\* getTranscription up to its await of generateContent.
AfterRead(w, p, loaded) ==
  IF ~loaded
  THEN \* reader.onerror rejects; onloadend then splits a null result
       [w EXCEPT !.recordingStatus = StErrorProcessing, !.pipes[p] = DonePipe,
                 !.thrown = TRUE]
  ELSE IF ~w.pipes[p].type
  THEN [w EXCEPT !.recordingStatus = StErrorProcessing, !.pipes[p] = DonePipe]
  ELSE [w EXCEPT !.recordingStatus = StGettingTranscript,
                 !.pipes[p].pc = "transcribing"]

\* A faulty variant of AfterTranscription: the response is used without the test
\* that it holds text.
AfterTranscriptionUnchecked(w, p, transcriptionText) ==
  LET w1 == [w EXCEPT !.rawTranscription = transcriptionText,
                      !.pipes[p].transcript = transcriptionText,
                      !.heap[w.currentNote].rawTranscription = transcriptionText]
  IN GetPolishedNote([w1 EXCEPT !.recordingStatus = StTranscriptComplete], p)

\* A faulty variant of AfterTranscription: the response goes to the note and
\* not to the raw transcription shown.
AfterTranscriptionNotShown(w, p, transcriptionText) ==
  IF Truthy(transcriptionText)
  THEN LET w1 == [w EXCEPT !.pipes[p].transcript = transcriptionText]
           w2 == IF w1.currentNote = Null THEN w1
                 ELSE [w1 EXCEPT !.heap[w1.currentNote].rawTranscription =
                                    transcriptionText]
       IN GetPolishedNote([w2 EXCEPT !.recordingStatus = StTranscriptComplete], p)
  ELSE [w EXCEPT !.recordingStatus = StTranscriptionEmpty, !.pipes[p] = DonePipe]

\* getTranscription from the response of generateContent on.
AfterTranscription(w, p, transcriptionText) ==
  IF Truthy(transcriptionText)
  THEN LET w1 == [w EXCEPT !.rawTranscription = transcriptionText,
                           !.pipes[p].transcript = transcriptionText]
           w2 == IF w1.currentNote = Null THEN w1
                 ELSE [w1 EXCEPT !.heap[w1.currentNote].rawTranscription =
                                    transcriptionText]
       IN GetPolishedNote([w2 EXCEPT !.recordingStatus = StTranscriptComplete], p)
  ELSE [w EXCEPT !.recordingStatus = StTranscriptionEmpty, !.pipes[p] = DonePipe]

TranscriptionThrew(w, p) ==
  [w EXCEPT !.recordingStatus = StErrorTranscription, !.pipes[p] = DonePipe]

\* A faulty variant of AfterPolish: the response is stored and saved without the
\* test that it holds text.
AfterPolishUnchecked(w, p, polishedText) ==
  LET w1 == [w EXCEPT !.heap[w.currentNote].polishedNote = polishedText]
  IN [SaveOrUpdateCurrentNote(w1) EXCEPT !.recordingStatus = StNotePolished,
                                         !.pipes[p] = DonePipe]

\* getPolishedNote from the response of generateContent on.
AfterPolish(w, p, polishedText) ==
  IF Truthy(polishedText)
  THEN LET w1 == [w EXCEPT !.editorTitle =
                            LET title == DeriveTitle(polishedText.str, @.str)
                            IN IF title = @.str THEN @
                               ELSE [polishedText EXCEPT !.str = title]]
           w2 == IF w1.currentNote = Null THEN w1
                 ELSE [w1 EXCEPT !.heap[w1.currentNote].polishedNote = polishedText]
       IN [SaveOrUpdateCurrentNote(w2) EXCEPT !.recordingStatus = StNotePolished,
                                              !.pipes[p] = DonePipe]
  ELSE [w EXCEPT !.recordingStatus = StPolishingEmpty, !.pipes[p] = DonePipe]

PolishThrew(w, p) ==
  [w EXCEPT !.recordingStatus = StErrorPolishing, !.pipes[p] = DonePipe]

(***************************************************************************)
(* Capture: startRecording, stopRecording, the recorder's callbacks        *)
(***************************************************************************)
Suspend(w, at)  == [w EXCEPT !.calls[at] = @ + 1]
Resume(w, at)   == [w EXCEPT !.calls[at] = @ - 1]

\* startRecording from the close of the old audio context to the first
\* getUserMedia.
RequestMicrophone(w) ==
  Suspend([w EXCEPT !.audioContext = FALSE, !.recordingStatus = StRequesting],
          "getUserMedia1")

\* startRecording up to its first await.
StartRecording(w) ==
  LET w1 == StopTracks([w EXCEPT !.audioChunks = <<>>], w.stream)
  IN IF w1.audioContext THEN Suspend(w1, "close") ELSE RequestMicrophone(w1)

PermissionErrors == {"NotAllowedError", "PermissionDeniedError"}

\* The catch block of startRecording.
StartRecordingCatch(w, errorName) ==
  LET w1 == [w EXCEPT !.recordingStatus =
                        IF errorName \in PermissionErrors
                        THEN StPermissionDenied ELSE StDeviceError,
                      !.isRecording = FALSE]
      w2 == StopTracks(w1, w1.stream)
  IN StopLiveDisplay([w2 EXCEPT !.stream = Null])

\* startRecording from the stream getUserMedia resolved with on.  The
\* recorder is "ok", or both constructors throw, or start() throws.
AfterGetUserMedia(w, s, recorder) ==
  LET w1 == [w EXCEPT !.tracks[s] = "live", !.stream = s]
  IN CASE recorder = "constructorThrows" ->
            StartRecordingCatch(w1, "NotSupportedError")
       [] recorder = "startThrows" ->
            StartRecordingCatch(
              [w1 EXCEPT !.mediaRecorder = s,
                         !.recorders[s] = [state |-> "inactive", by |-> "none"]],
              "InvalidStateError")
       [] OTHER ->
            StartLiveDisplay(
              [w1 EXCEPT !.mediaRecorder = s,
                         !.recorders[s] = [state |-> "recording", by |-> "none"],
                         !.isRecording = TRUE])

StopRecording(w) ==
  IF w.mediaRecorder # Null /\ w.isRecording
  THEN LET w1 == RecorderStop(w, w.mediaRecorder, "user")
       IN IF w1.thrown THEN w1
          ELSE [w1 EXCEPT !.isRecording = FALSE,
                          !.recordingStatus = StProcessingAudio]
  ELSE IF ~w.isRecording THEN StopLiveDisplay(w) ELSE w

\* mediaRecorder.ondataavailable
OnDataAvailable(w, r, size) ==
  IF size > 0 THEN [w EXCEPT !.audioChunks = Append(@, r)] ELSE w

\* mediaRecorder.onstop; the recorder was stopped by `by`.
OnStop(w, by) ==
  LET w1 == StopLiveDisplay(w)
      w2 == IF Len(w1.audioChunks) > 0
            THEN ProcessAudio(w1, Len(w1.audioChunks), w1.audioChunks, TRUE,
                              IF by = "newNote" THEN "aborted" ELSE "recording")
            ELSE [w1 EXCEPT !.recordingStatus = StNoAudio]
  IN [StopTracks(w2, w2.stream) EXCEPT !.stream = Null]

\* The task a recorder queues when it stops: dataavailable, then stop.
Finalize(w, r, size) ==
  OnStop(OnDataAvailable([w EXCEPT !.recorders[r] =
                                     [state |-> "inactive", by |-> "none"]],
                         r, size),
         w.recorders[r].by)

MaxUploadBytes == 50 * 1024 * 1024

\* A faulty variant of HandleFileUpload: the size is tested after createNewNote.
HandleFileUploadLateCheck(w, file, t) ==
  LET w1 == CreateNewNote(w, t)
  IN IF file.size > MaxUploadBytes
     THEN [w1 EXCEPT !.recordingStatus = StTooLarge]
     ELSE ProcessAudio([w1 EXCEPT !.recordingStatus = StProcessingFile],
                       file.size, <<>>, file.type, "upload")

\* handleFileUpload up to its await of processAudio.
HandleFileUpload(w, file, t) ==
  IF file.size > MaxUploadBytes
  THEN [w EXCEPT !.recordingStatus = StTooLarge]
  ELSE LET w1 == CreateNewNote(w, t)
       IN IF w1.thrown THEN w1
          ELSE ProcessAudio([w1 EXCEPT !.recordingStatus = StProcessingFile],
                            file.size, <<>>, file.type, "upload")

(***************************************************************************)
(* Inputs                                                                  *)
(***************************************************************************)
\* The files a user can select: empty, small, exactly the limit, above it;
\* with a content type the browser knows, or without one.
Files == [size : {0, 1, MaxUploadBytes, MaxUploadBytes + 1}, type : BOOLEAN]

\* What a refused or failed getUserMedia rejects with.
GetUserMediaErrors == PermissionErrors \cup {"NotFoundError"}

RecorderOutcomes == {"ok", "constructorThrows", "startThrows"}

\* Date.now() at a later event: the same millisecond, or a later one.
Clock == {now, now + 1}

\* The ids of the notes the sidebar lists.
Listed == {heap[notes[i]].id : i \in DOMAIN notes}

\* A user event enters its handler.
Click(w) == [w EXCEPT !.clicks = @ - 1]

\* What stop() does on an inactive recorder in the browser the page runs in.
StopOnInactive == {"throws", "returns"}
Browser(w, o) == [w EXCEPT !.stopOnInactive = o]

(***************************************************************************)
(* Initial state: the constructor on an empty local storage                *)
(***************************************************************************)
Constructed(budget) ==
  /\ isRecording = FALSE
  /\ stream = Null
  /\ mediaRecorder = Null
  /\ audioChunks = <<>>
  /\ audioContext = FALSE
  /\ analyserNode = FALSE
  /\ waveformDrawingId = Null
  /\ timerIntervalId = Null
  /\ currentNote = 1
  /\ notes = <<>>
  /\ recordingStatus = StReady
  /\ rawTranscription = RawPlaceholder
  /\ editorTitle = UntitledText
  /\ tracks = [s \in StreamIds |-> "none"]
  /\ recorders = [s \in StreamIds |-> [state |-> "none", by |-> "none"]]
  /\ frames = {}
  /\ timers = {}
  /\ heap = [n \in NoteRefs |-> IF n = 1 THEN [FreeNote EXCEPT !.id = 1] ELSE FreeNote]
  /\ now = 1
  /\ calls = [at \in {"close", "getUserMedia1", "getUserMedia2"} |-> 0]
  /\ pipes = [p \in PipeIds |-> FreePipe]
  /\ clicks = budget
  /\ lastOp = Op("constructor")

Init == Constructed(MaxClicks)

(***************************************************************************)
(* Actions: user events                                                    *)
(***************************************************************************)
ToggleRecordingStart ==
  /\ clicks > 0
  /\ ~isRecording
  /\ Commit(StartRecording(Click(State)), Op("startRecording"))

ToggleRecordingStop ==
  /\ clicks > 0
  /\ isRecording
  /\ \E o \in StopOnInactive :
       Commit(StopRecording(Browser(Click(State), o)), Op("stopRecording"))

NewNoteClicked ==
  /\ clicks > 0
  /\ \E t \in Clock, o \in StopOnInactive :
       Commit(CreateNewNote(Browser(Click(State), o), t), Op("createNewNote"))

FileSelected ==
  /\ clicks > 0
  /\ \E file \in Files, t \in Clock, o \in StopOnInactive :
       Commit(HandleFileUpload(Browser(Click(State), o), file, t),
              Op(IF file.size > MaxUploadBytes THEN "handleFileUpload.tooLarge"
                 ELSE "handleFileUpload"))

NoteSelected ==
  /\ clicks > 0
  /\ \E id \in Listed :
       Commit(DisplayNoteById(Click(State), id),
              [Op("displayNoteById") EXCEPT !.note = id])

DeleteClicked ==
  /\ clicks > 0
  /\ \E id \in Listed, t \in Clock, o \in StopOnInactive :
       Commit(DeleteNote(Browser(Click(State), o), id, t),
              [Op(IF heap[currentNote].id = id THEN "deleteNote.current"
                  ELSE "deleteNote") EXCEPT !.note = id])

ClearAllConfirmed ==
  /\ clicks > 0
  /\ \E t \in Clock, o \in StopOnInactive :
       Commit(ClearAllNotes(Browser(Click(State), o), t), Op("clearAllNotes"))

(***************************************************************************)
(* Actions: continuations of startRecording                                *)
(***************************************************************************)
AudioContextClosed ==
  /\ calls["close"] > 0
  /\ Commit(RequestMicrophone(Resume(State, "close")), Op("startRecording.request"))

FirstGetUserMediaRejected ==
  /\ calls["getUserMedia1"] > 0
  /\ Commit(Suspend(Resume(State, "getUserMedia1"), "getUserMedia2"),
            Op("startRecording.retry"))

SecondGetUserMediaRejected ==
  /\ calls["getUserMedia2"] > 0
  /\ \E e \in GetUserMediaErrors :
       Commit(StartRecordingCatch(Resume(State, "getUserMedia2"), e),
              [Op("startRecording.catch") EXCEPT !.error = e])

GetUserMediaResolved ==
  \E at \in {"getUserMedia1", "getUserMedia2"}, recorder \in RecorderOutcomes :
    /\ calls[at] > 0
    /\ LET s == FreshId({x \in StreamIds : tracks[x] # "none"}, StreamIds)
       IN Commit(AfterGetUserMedia(Resume(State, at), s, recorder),
                 IF recorder = "ok" THEN Op("startRecording.started")
                 ELSE [Op("startRecording.catch") EXCEPT
                         !.stream = s,
                         !.error = IF recorder = "startThrows"
                                   THEN "InvalidStateError" ELSE "NotSupportedError"])

(***************************************************************************)
(* Actions: the platform's callbacks                                       *)
(***************************************************************************)
\* A recorder whose tracks have all ended stops by itself.
TracksEnded ==
  \E r \in StreamIds :
    /\ recorders[r].state = "recording"
    /\ tracks[r] # "live"
    /\ Commit([State EXCEPT !.recorders[r] = [state |-> "finalizing", by |-> "ended"]],
              Op("ended"))

RecorderFinalized ==
  \E r \in StreamIds, size \in {0, 1} :
    /\ recorders[r].state = "finalizing"
    /\ Commit(Finalize(State, r, size),
              [Op("onstop") EXCEPT !.stream = r, !.bytes = size])

AnimationFrame ==
  \E f \in frames :
    Commit(DrawLiveWaveform([State EXCEPT !.frames = @ \ {f}]),
           Op(IF analyserNode /\ isRecording THEN "drawLiveWaveform.draw"
              ELSE "drawLiveWaveform.end"))

\* updateLiveTimer only writes the elapsed time to the timer display.
TimerTick ==
  \E t \in timers : Commit(State, Op("updateLiveTimer"))

(***************************************************************************)
(* Actions: continuations of the pipeline                                  *)
(***************************************************************************)
ReaderDone ==
  \E p \in PipeIds, loaded \in BOOLEAN :
    /\ pipes[p].pc = "reading"
    /\ Commit(AfterRead(State, p, loaded), [Op("processAudio.read") EXCEPT !.pipe = p])

TranscriptionReturned ==
  \E p \in PipeIds, str \in Transcripts :
    /\ pipes[p].pc = "transcribing"
    /\ Commit(AfterTranscription(State, p, Text(str, p, pipes[p].target)),
              [Op("getTranscription.response") EXCEPT !.pipe = p, !.text = str])

TranscriptionFailed ==
  \E p \in PipeIds :
    /\ pipes[p].pc = "transcribing"
    /\ Commit(TranscriptionThrew(State, p),
              [Op("getTranscription.response") EXCEPT !.pipe = p, !.error = "throws"])

PolishReturned ==
  \E p \in PipeIds, str \in Polished :
    /\ pipes[p].pc = "polishing"
    /\ Commit(AfterPolish(State, p, Text(str, p, pipes[p].target)),
              [Op("getPolishedNote.response") EXCEPT !.pipe = p, !.text = str])

PolishFailed ==
  \E p \in PipeIds :
    /\ pipes[p].pc = "polishing"
    /\ Commit(PolishThrew(State, p),
              [Op("getPolishedNote.response") EXCEPT !.pipe = p, !.error = "throws"])

Next ==
  \/ ToggleRecordingStart
  \/ ToggleRecordingStop
  \/ NewNoteClicked
  \/ FileSelected
  \/ NoteSelected
  \/ DeleteClicked
  \/ ClearAllConfirmed
  \/ AudioContextClosed
  \/ FirstGetUserMediaRejected
  \/ SecondGetUserMediaRejected
  \/ GetUserMediaResolved
  \/ TracksEnded
  \/ RecorderFinalized
  \/ AnimationFrame
  \/ TimerTick
  \/ ReaderDone
  \/ TranscriptionReturned
  \/ TranscriptionFailed
  \/ PolishReturned
  \/ PolishFailed

Spec == Init /\ [][Next]_vars

(***************************************************************************)
(* A session that resumes over the store an earlier session saved: the     *)
(* constructor loads MaxStored notes, the most recent first, each with a   *)
(* transcript and a polished text, and makes a new draft the current note. *)
(***************************************************************************)
StoredNote(id) ==
  [id |-> id, title |-> UntitledText,
   rawTranscription |-> Text(<<"h", "i">>, Null, Null),
   polishedNote |-> Text(<<"-", " ", "o", "k">>, Null, Null)]

InitStore ==
  /\ isRecording = FALSE
  /\ stream = Null
  /\ mediaRecorder = Null
  /\ audioChunks = <<>>
  /\ audioContext = FALSE
  /\ analyserNode = FALSE
  /\ waveformDrawingId = Null
  /\ timerIntervalId = Null
  /\ currentNote = 1
  /\ notes = [i \in 1..MaxStored |-> i + 1]
  /\ recordingStatus = StReady
  /\ rawTranscription = RawPlaceholder
  /\ editorTitle = UntitledText
  /\ tracks = [s \in StreamIds |-> "none"]
  /\ recorders = [s \in StreamIds |-> [state |-> "none", by |-> "none"]]
  /\ frames = {}
  /\ timers = {}
  /\ heap = [n \in NoteRefs |->
               IF n = 1 THEN [FreeNote EXCEPT !.id = MaxStored + 1]
               ELSE IF n <= MaxStored + 1 THEN StoredNote(MaxStored + 2 - n)
               ELSE FreeNote]
  /\ now = MaxStored + 1
  /\ calls = [at \in {"close", "getUserMedia1", "getUserMedia2"} |-> 0]
  /\ pipes = [p \in PipeIds |-> FreePipe]
  /\ clicks = MaxClicks
  /\ lastOp = Op("constructor")

SpecStore == InitStore /\ [][Next]_vars

(***************************************************************************)
(* The title derivation on every polished text of up to MaxTextLen         *)
(* characters of TitleAlphabet: one upload, whose polish call answers with *)
(* any of them.                                                            *)
(***************************************************************************)
TitleAlphabet == {"#", " ", "\n", "a", "-"}

TitleTexts == UNION {[1..n -> TitleAlphabet] : n \in 0..MaxTextLen}

PolishReturnedAnyText ==
  \E p \in PipeIds, str \in TitleTexts :
    /\ pipes[p].pc = "polishing"
    /\ Commit(AfterPolish(State, p, Text(str, p, pipes[p].target)),
              [Op("getPolishedNote.response") EXCEPT !.pipe = p, !.text = str])

InitTitle == Constructed(1)

NextTitle ==
  \/ FileSelected
  \/ ReaderDone
  \/ TranscriptionReturned
  \/ PolishReturnedAnyText

SpecTitle == InitTitle /\ [][NextTitle]_vars

(***************************************************************************)
(* The capture session alone: the record button, the new-note button and   *)
(* the callbacks of the microphone, the recorder, the frames and the       *)
(* timer.  A pipeline a recorder starts stays at its first await.          *)
(***************************************************************************)
InitCapture == Constructed(MaxCaptureClicks)

NextCapture ==
  \/ ToggleRecordingStart
  \/ ToggleRecordingStop
  \/ NewNoteClicked
  \/ AudioContextClosed
  \/ FirstGetUserMediaRejected
  \/ SecondGetUserMediaRejected
  \/ GetUserMediaResolved
  \/ TracksEnded
  \/ RecorderFinalized
  \/ AnimationFrame
  \/ TimerTick

SpecCapture == InitCapture /\ [][NextCapture]_vars

(***************************************************************************)
(* Claims                                                                  *)
(***************************************************************************)
Live == {s \in StreamIds : tracks[s] = "live"}

\* C1: in no reachable state do two acquired microphone streams both have
\* unstopped tracks.
C1_NoOverlappingStreams == Cardinality(Live) <= 1

\* C2: every acquired stream is released exactly once: none has its tracks
\* stopped twice, and none is left live where no release can reach it (every
\* release goes through this.stream, which is only ever set to a newly
\* acquired stream or to null, so a live stream it no longer refers to stays
\* live for ever).
C2_ReleasedExactlyOnce ==
  \A s \in StreamIds :
    /\ tracks[s] # "endedTwice"
    /\ tracks[s] = "live" => stream = s

\* C3: no note holds a raw transcription or a polished text that a pipeline
\* started for another note produced.
C3_ResultsStayWithTheirNote ==
  \A n \in NoteRefs :
    /\ heap[n].rawTranscription.src # Null => heap[n].rawTranscription.for = n
    /\ heap[n].polishedNote.src # Null => heap[n].polishedNote.for = n

\* C4: the audio of a capture that createNewNote aborted is never handed to
\* processAudio: no pipeline runs on it.
C4_AbortedCaptureIsNotProcessed ==
  \A p \in PipeIds : pipes[p].origin # "aborted"

\* The step taken last was a remote call that returned no text or threw.
NoAnswer(op) == op.error = "throws" \/ op.text = <<>>

\* C5: when the transcribe call of a pipeline returns empty text or throws,
\* that step ends the pipeline with a transcription-failure status and
\* leaves the store and every note as they were; a pipeline reaches the
\* polish call only from a transcribe call that returned text, and an ended
\* pipeline stays ended.
C5_TranscriptionFailureHalts ==
  [][\A p \in PipeIds :
       /\ ( /\ pipes[p].pc = "transcribing"
            /\ lastOp'.op = "getTranscription.response"
            /\ lastOp'.pipe = p
            /\ NoAnswer(lastOp') )
          => /\ pipes'[p].pc = "done"
             /\ recordingStatus' \in {StTranscriptionEmpty, StErrorTranscription}
             /\ notes' = notes
             /\ heap' = heap
       /\ (pipes[p].pc # "polishing" /\ pipes'[p].pc = "polishing")
          => /\ pipes[p].pc = "transcribing"
             /\ ~NoAnswer(lastOp')
       /\ pipes[p].pc = "done" => pipes'[p].pc = "done"]_vars

C5_Witness ==
  /\ lastOp.op = "getTranscription.response"
  /\ lastOp.error = "none" /\ lastOp.text = <<>>
  /\ pipes[lastOp.pipe].pc = "done"
  /\ recordingStatus = StTranscriptionEmpty

\* C6: when the polish call of a pipeline returns empty text or throws, that
\* step ends the pipeline with a polishing-failure status and changes no
\* note, not the store, not the current note and not the raw transcription
\* shown.
C6_PolishFailureKeepsRaw ==
  [][\A p \in PipeIds :
       ( /\ pipes[p].pc = "polishing"
         /\ lastOp'.op = "getPolishedNote.response"
         /\ lastOp'.pipe = p
         /\ NoAnswer(lastOp') )
       => /\ pipes'[p].pc = "done"
          /\ recordingStatus' \in {StPolishingEmpty, StErrorPolishing}
          /\ notes' = notes
          /\ heap' = heap
          /\ currentNote' = currentNote
          /\ rawTranscription' = rawTranscription]_vars

C6_Witness ==
  /\ lastOp.op = "getPolishedNote.response"
  /\ lastOp.error = "throws"
  /\ recordingStatus = StErrorPolishing
  /\ ~TrimEmpty(heap[currentNote].rawTranscription)
  /\ heap[currentNote].rawTranscription.src = lastOp.pipe
  /\ heap[currentNote].polishedNote = EmptyText

\* C7: no note of the store has both rawTranscription and polishedNote empty,
\* and a saveOrUpdateCurrentNote (run by a polish that returned text) that
\* finds nothing but white space in both fields of the current note leaves
\* the store as it was.
C7_NoEmptyNoteStored ==
  /\ [](\A i \in DOMAIN notes :
          ~( /\ heap[notes[i]].rawTranscription.str = <<>>
             /\ heap[notes[i]].polishedNote.str = <<>> ))
  /\ [][( /\ lastOp'.op = "getPolishedNote.response"
          /\ ~NoAnswer(lastOp')
          /\ Trim(heap'[currentNote'].rawTranscription.str) = <<>>
          /\ Trim(heap'[currentNote'].polishedNote.str) = <<>> )
        => notes' = notes]_vars

C7_Witness ==
  /\ lastOp.op = "getPolishedNote.response"
  /\ lastOp.text = <<" ">>
  /\ recordingStatus = StNotePolished
  /\ heap[currentNote].rawTranscription.str = <<>>
  /\ heap[currentNote].polishedNote.str = <<" ">>
  /\ currentNote \notin Range(notes)

\* C8: a file above 50 MB only sets the size status: no pipeline starts, and
\* the current note, the notes, the store and the capture stay as they were.
C8_OversizedUploadRejected ==
  [][lastOp'.op = "handleFileUpload.tooLarge"
     => /\ recordingStatus' = StTooLarge
        /\ UNCHANGED <<isRecording, stream, mediaRecorder, audioChunks,
                       audioContext, analyserNode, waveformDrawingId,
                       timerIntervalId, currentNote, notes, rawTranscription,
                       editorTitle, tracks, recorders, frames, timers, heap,
                       now, calls, pipes>>]_vars

C8_Witness ==
  /\ lastOp.op = "handleFileUpload.tooLarge"
  /\ recordingStatus = StTooLarge
  /\ isRecording
  /\ tracks[stream] = "live"

\* C9: right after the catch block of startRecording the stream that call
\* acquired (if any) has its tracks stopped, the stream reference is null,
\* isRecording is false, no interval timer and no frame of the draw loop is
\* scheduled, and the status is the permission-denied one for a permission
\* error and the device-error one for any other.
C9_FailedStartReleases ==
  lastOp.op = "startRecording.catch"
  => /\ lastOp.stream # Null => tracks[lastOp.stream] \in {"ended", "endedTwice"}
     /\ stream = Null
     /\ ~isRecording
     /\ timerIntervalId = Null /\ timers = {}
     /\ waveformDrawingId = Null /\ frames = {}
     /\ recordingStatus = IF lastOp.error \in PermissionErrors
                          THEN StPermissionDenied ELSE StDeviceError

\* C10: in every state where isRecording is false and no recorder has its
\* stop event pending, no interval timer and no frame of the draw loop is
\* scheduled.
C10_NoPeriodicTaskAfterCapture ==
  (~isRecording /\ \A r \in StreamIds : recorders[r].state # "finalizing")
  => timers = {} /\ frames = {}

\* C11: a frame callback of the draw loop that runs while isRecording is
\* false draws nothing and requests no further frame: the frames scheduled
\* after it are among those scheduled before it, without the one that ran,
\* and waveformDrawingId is null.
C11_DrawLoopEndsWithCapture ==
  [][(lastOp'.op \in {"drawLiveWaveform.draw", "drawLiveWaveform.end"} /\ ~isRecording)
     => /\ lastOp'.op = "drawLiveWaveform.end"
        /\ frames' \subseteq frames
        /\ frames' # frames
        /\ waveformDrawingId' = Null]_vars

C11_Witness ==
  /\ lastOp.op = "drawLiveWaveform.end"
  /\ ~isRecording
  /\ analyserNode
  /\ \E r \in StreamIds : recorders[r].state = "finalizing"

\* The current note is a draft createNewNote has just made: title,
\* rawTranscription and polishedNote are empty and the store does not hold it.
FreshDraft ==
  /\ heap[currentNote].title = EmptyText
  /\ heap[currentNote].rawTranscription = EmptyText
  /\ heap[currentNote].polishedNote = EmptyText
  /\ currentNote \notin Range(notes)

\* C12: deleteNote of the id of the current note leaves no note with that id
\* in the store and a fresh empty draft, not in the store, as the current
\* note; clearAllNotes leaves an empty store and such a draft.
C12_DeleteAndClearLeaveFreshDraft ==
  [][/\ ( /\ lastOp'.op \in {"deleteNote", "deleteNote.current"}
          /\ heap[currentNote].id = lastOp'.note )
        => /\ \A i \in DOMAIN notes' : heap'[notes'[i]].id # lastOp'.note
           /\ FreshDraft'
     /\ lastOp'.op = "clearAllNotes"
        => /\ notes' = <<>>
           /\ FreshDraft']_vars

\* The stored note shown in the editor has just been deleted.
C12_Witness ==
  /\ lastOp.op = "deleteNote.current"
  /\ lastOp.note \notin Listed
  /\ heap[currentNote].id # lastOp.note
  /\ FreshDraft
  /\ recordingStatus = StReady
  /\ editorTitle = UntitledText

\* C13: when the polish call of a pipeline returns text (so its transcribe
\* call did too) and the current note has not changed since the pipeline
\* started, the note current at its start then holds the transcript that
\* pipeline got as rawTranscription and the polished text as polishedNote
\* and is in the store; and the store gains a note only in such a step of
\* a polish call that returned text.
C13_SuccessfulPipelineFillsItsNote ==
  [][/\ \A p \in PipeIds :
          ( /\ pipes[p].pc = "polishing"
            /\ ~pipes[p].moved
            /\ lastOp'.op = "getPolishedNote.response"
            /\ lastOp'.pipe = p
            /\ ~NoAnswer(lastOp') )
          => /\ heap'[pipes[p].target].rawTranscription.str = pipes[p].transcript.str
             /\ heap'[pipes[p].target].polishedNote.str = lastOp'.text
             /\ pipes[p].target \in Range(notes')
     /\ ~(Range(notes') \subseteq Range(notes))
        => lastOp'.op = "getPolishedNote.response" /\ ~NoAnswer(lastOp')]_vars

\* C14: every failure is caught where it occurs: no step of any handler,
\* callback or continuation raises an error that escapes it (the safety half
\* of the claim; the other half is that the controller then comes to rest
\* with isRecording false, no pipeline in flight and a status set).
C14_NoErrorEscapes == ~lastOp.threw

\* C15: when saveOrUpdateCurrentNote stores the current note, as a new
\* entry or in place of the entry with its id, that note is then the first
\* of the store.
C15_StoredNoteGoesToFront ==
  [][( /\ lastOp'.op = "getPolishedNote.response"
       /\ ~NoAnswer(lastOp')
       /\ HasContent(heap'[currentNote'])
       /\ currentNote' \in Range(notes') )
     => notes'[1] = currentNote']_vars

\* C16: two different notes in use at once (the current note and the notes
\* of the store), each made by its own createNewNote call, never have the
\* same id.
C16_IdsAreUnique ==
  \A m, n \in {currentNote} \cup Range(notes) :
    m # n => heap[m].id # heap[n].id

\* The lines of a polished text, each trimmed.
TrimmedLines(text) ==
  [i \in DOMAIN Split(text, "\n") |-> Trim(Split(text, "\n")[i])]

\* The lines that begin with the heading marker.
HeadingLines(text) ==
  SelectSeq(TrimmedLines(text), LAMBDA line : line # <<>> /\ Head(line) = "#")

\* C17: when a polish call returns a text with a line that begins with the
\* heading marker #, the title shown afterwards is the first such line
\* without its marker, trimmed, whatever precedes that line and whatever
\* the title was before.
C17_HeadingLineGivesTitle ==
  [][( /\ lastOp'.op = "getPolishedNote.response"
       /\ HeadingLines(lastOp'.text) # <<>> )
     => editorTitle'.str =
          Trim(DropWhile(Head(HeadingLines(lastOp'.text)), {"#"}))]_vars

\* C18: when a polish call returns text in which no line begins with # and
\* no line keeps more than 3 characters once its leading markup is removed,
\* the title field of the current note, which that step stores, is what it
\* was before the step.
C18_NoTitleRuleLeavesTitle ==
  [][( /\ lastOp'.op = "getPolishedNote.response"
       /\ ~NoAnswer(lastOp')
       /\ HeadingLines(lastOp'.text) = <<>>
       /\ \A i \in DOMAIN TrimmedLines(lastOp'.text) :
             Len(Trim(DropWhile(TrimmedLines(lastOp'.text)[i], Markup))) <= 3
       /\ currentNote' = currentNote
       /\ currentNote' \in Range(notes') )
     => heap'[currentNote'].title = heap[currentNote].title]_vars

\* C19: a recorder that delivers zero bytes appends nothing to the buffer;
\* and when a recorder the user stopped finalizes with zero bytes, the status
\* is the empty-capture one, no pipeline starts (no remote call), no note
\* and no store entry changes, and the stream of that recorder has its
\* tracks stopped.
C19_EmptyCaptureEndsQuietly ==
  [][(lastOp'.op = "onstop" /\ lastOp'.bytes = 0)
     => /\ audioChunks' = audioChunks
        /\ recorders[lastOp'.stream].by = "user"
           => /\ recordingStatus' = StNoAudio
              /\ pipes' = pipes
              /\ heap' = heap
              /\ notes' = notes
              /\ tracks'[lastOp'.stream] # "live"]_vars

\* C20: the audio a finalizing recorder hands to processAudio is exactly the
\* non-empty chunks that recorder emitted, in order: none from another
\* recorder, none of its own missing.
C20_ArtifactIsTheRecordersOwn ==
  [][lastOp'.op = "onstop"
     => \A p \in PipeIds :
          (pipes'[p].pc = "reading" /\ pipes[p].pc # "reading")
          => pipes'[p].chunks = IF lastOp'.bytes > 0
                                THEN <<lastOp'.stream>> ELSE <<>>]_vars

\* C21: in every state where isRecording is true, this.stream refers to a
\* stream with live tracks, the current recorder is recording on that stream,
\* and the elapsed-time interval timer is scheduled; so the stop event of an
\* earlier recorder never takes the stream or the live display from a
\* session that has started since.
C21_RecordingSessionIsWhole ==
  isRecording
  => /\ stream # Null
     /\ tracks[stream] = "live"
     /\ mediaRecorder = stream
     /\ recorders[mediaRecorder].state = "recording"
     /\ timerIntervalId # Null
     /\ timerIntervalId \in timers

\* C22: the text a pipeline submits to its polish call is the transcript its
\* own transcribe call returned, whatever other pipelines, new notes and
\* selections did to the raw transcription shown before or after.
C22_PromptIsOwnTranscript ==
  \A p \in PipeIds :
    pipes[p].pc = "polishing"
    => /\ pipes[p].prompt = pipes[p].transcript
       /\ pipes[p].prompt.src = p

\* A polish call in flight for a pipeline whose note is no longer the current
\* one, while the raw transcription shown is no longer what it submitted.
C22_Witness ==
  \E p \in PipeIds :
    /\ pipes[p].pc = "polishing"
    /\ pipes[p].moved
    /\ pipes[p].prompt.src = p
    /\ rawTranscription # pipes[p].prompt

\* C23: at most one frame of the draw loop is scheduled at any time, and
\* waveformDrawingId names it: it is null when none is scheduled.
C23_OneFrameNamedByItsId ==
  /\ Cardinality(frames) <= 1
  /\ frames = IF waveformDrawingId = Null THEN {} ELSE {waveformDrawingId}

\* C24: at most one interval timer is scheduled at any time, and
\* timerIntervalId names it: it is null exactly when none is scheduled; and
\* in every reachable state, the display started or not, stopLiveDisplay
\* raises nothing, leaves no timer, and run a second time changes nothing.
C24_OneTimerNamedByItsId ==
  /\ Cardinality(timers) <= 1
  /\ timers = IF timerIntervalId = Null THEN {} ELSE {timerIntervalId}
  /\ ~StopLiveDisplay(State).thrown
  /\ StopLiveDisplay(State).timers = {}
  /\ StopLiveDisplay(State).timerIntervalId = Null
  /\ StopLiveDisplay(StopLiveDisplay(State)) = StopLiveDisplay(State)

\* startLiveDisplay has run while the timer of an earlier run was still set.
C24_Witness ==
  /\ lastOp.op = "startRecording.started"
  /\ Cardinality(frames) = 2
  /\ timerIntervalId # Null
  /\ timers = {timerIntervalId}

====
